---- MODULE Spec2Model ----
(***************************************************************************)
(* Job Tracker (Svelte): the list state and persistence model of           *)
(* src/job-tracker-svelte/src/routes/+page.svelte.                         *)
(*                                                                         *)
(* The component keeps an array `apps` of job applications, mirrors it to  *)
(* localStorage under one key after every mutation, and derives a filtered *)
(* view and per-status counts from it.  Text fields are modelled as        *)
(* sequences of one-character strings so that trim(), toLowerCase() and    *)
(* includes() are computed rather than assumed.  The value under the       *)
(* storage key is modelled as the text localStorage holds, classified by   *)
(* what JSON.parse makes of it.                                            *)
(***************************************************************************)
EXTENDS Integers, Sequences, FiniteSets, TLC

VARIABLES
    company, role, status, date, link, notes,   \* the form fields (lines 20-25)
    apps,                                       \* the in-memory list (line 27)
    filter, query,                              \* view state (lines 28-29)
    filtered, counts,                           \* reactive declarations (lines 100-118)
    storage,                                    \* localStorage[STORAGE_KEY]
    mount,                                      \* "init" until the onMount callback has run
    now,                                        \* the last reading of the platform clock
    hasSaved,                                   \* save() has run in this session
    lastOp                                      \* the handler that ran last, and its id

vars == << company, role, status, date, link, notes, apps, filter, query,
           filtered, counts, storage, mount, now, hasSaved, lastOp >>

formVars == << company, role, status, date, link, notes >>

-----------------------------------------------------------------------------
(* Bounds of the model *)

MaxApps == 2          \* addApp is explored while the list is shorter than this
MaxClock == 1         \* clock readings are 0..MaxClock
MaxViewLen == 2       \* length of the lists the view model is explored on

-----------------------------------------------------------------------------
(* Types (lines 5-16) *)

Statuses == {"Applied", "Interviewing", "Offer", "Rejected"}

Filters == {"All"} \cup Statuses

Ids == {"u1", "u2"}

Today == "2024-01-01"

NoId == "-"

-----------------------------------------------------------------------------
(* String primitives: String.prototype.trim / toLowerCase / includes *)

WhiteSpace == {" ", "\t"}

RECURSIVE TrimStart(_)
TrimStart(s) ==
    IF s = <<>> THEN <<>>
    ELSE IF Head(s) \in WhiteSpace THEN TrimStart(Tail(s)) ELSE s

RECURSIVE TrimEnd(_)
TrimEnd(s) ==
    IF s = <<>> THEN <<>>
    ELSE IF s[Len(s)] \in WhiteSpace THEN TrimEnd(SubSeq(s, 1, Len(s) - 1)) ELSE s

TrimIdentity(s) == s

Trim(s) == TrimEnd(TrimStart(s))

LowerChar(c) ==
    CASE c = "A" -> "a"
      [] c = "B" -> "b"
      [] c = "C" -> "c"
      [] OTHER -> c

ToLowerCase(s) == [i \in 1..Len(s) |-> LowerChar(s[i])]

RECURSIVE StartsWith(_, _)
StartsWith(s, q) ==
    IF q = <<>> THEN TRUE
    ELSE IF s = <<>> THEN FALSE
    ELSE Head(s) = Head(q) /\ StartsWith(Tail(s), Tail(q))

RECURSIVE Includes(_, _)
Includes(s, q) ==
    IF StartsWith(s, q) THEN TRUE
    ELSE IF s = <<>> THEN FALSE
    ELSE Includes(Tail(s), q)

-----------------------------------------------------------------------------
(* JSON.stringify / JSON.parse on the list (lines 36, 43) *)

JStr(s) == [t |-> "str", v |-> s]

JNum(n) == [t |-> "num", n |-> n]

\* An object is serialized as its members in property order.
StringifyRecord(a) ==
    << <<"id", JStr(a.id)>>,
       <<"company", JStr(a.company)>>,
       <<"role", JStr(a.role)>>,
       <<"status", JStr(a.status)>>,
       <<"date", JStr(a.date)>>,
       <<"link", JStr(a.link)>>,
       <<"notes", JStr(a.notes)>>,
       <<"createdAt", JNum(a.createdAt)>> >>

JSONStringify(list) ==
    [t |-> "arr", items |-> [i \in 1..Len(list) |-> StringifyRecord(list[i])]]

Member(obj, k) == obj[CHOOSE i \in 1..Len(obj) : obj[i][1] = k][2]

ParseRecord(obj) ==
    [ id        |-> Member(obj, "id").v,
      company   |-> Member(obj, "company").v,
      role      |-> Member(obj, "role").v,
      status    |-> Member(obj, "status").v,
      date      |-> Member(obj, "date").v,
      link      |-> Member(obj, "link").v,
      notes     |-> Member(obj, "notes").v,
      createdAt |-> Member(obj, "createdAt").n ]

\* The value JSON.parse returns: an array of records, or the non-array value.
JSONParse(j) ==
    IF j.t = "arr"
    THEN [t |-> "arr", list |-> [i \in 1..Len(j.items) |-> ParseRecord(j.items[i])]]
    ELSE [t |-> j.t, list |-> <<>>]

\* What localStorage.getItem(STORAGE_KEY) can return.
NoItem == [kind |-> "null", json |-> [t |-> "none"]]

EmptyText == [kind |-> "empty", json |-> [t |-> "none"]]

InvalidText == [kind |-> "invalid", json |-> [t |-> "none"]]

JsonText(j) == [kind |-> "json", json |-> j]

EmptyArray == [t |-> "arr", list |-> <<>>]

-----------------------------------------------------------------------------
(* save / load (lines 35-47) *)

Save(list) == JsonText(JSONStringify(list))

Load(raw) ==
    IF raw.kind \in {"null", "empty"} THEN EmptyArray
    ELSE IF raw.kind = "invalid" THEN EmptyArray
    ELSE JSONParse(raw.json)

-----------------------------------------------------------------------------
(* Array primitives used by the handlers *)

\* Array.prototype.sort((a, b) => b.createdAt - a.createdAt): stable, descending
RECURSIVE InsertDesc(_, _)
InsertDesc(a, sorted) ==
    IF sorted = <<>> THEN <<a>>
    ELSE IF Head(sorted).createdAt >= a.createdAt
         THEN <<Head(sorted)>> \o InsertDesc(a, Tail(sorted))
         ELSE <<a>> \o sorted

SortNothing(list) == list

RECURSIVE SortDesc(_)
SortDesc(list) ==
    IF list = <<>> THEN <<>>
    ELSE InsertDesc(list[Len(list)], SortDesc(SubSeq(list, 1, Len(list) - 1)))

AppendItem(item, list) == list \o <<item>>

\* [item, ...apps]
Prepend(item, list) == <<item>> \o list

RemoveFirstMatch(list, id) ==
    IF \E i \in 1..Len(list) : list[i].id = id
    THEN LET k == CHOOSE i \in 1..Len(list) :
                     list[i].id = id /\ \A j \in 1..(i - 1) : list[j].id # id
         IN SubSeq(list, 1, k - 1) \o SubSeq(list, k + 1, Len(list))
    ELSE list

\* apps.filter((a) => a.id !== id)
RECURSIVE FilterOutId(_, _)
FilterOutId(list, id) ==
    IF list = <<>> THEN <<>>
    ELSE IF Head(list).id # id
         THEN <<Head(list)>> \o FilterOutId(Tail(list), id)
         ELSE FilterOutId(Tail(list), id)

MapStatusKeepOld(list, id, next) ==
    list \o SelectSeq([i \in 1..Len(list) |-> [list[i] EXCEPT !.status = next]],
                      LAMBDA a : a.id = id)

MapStatusAll(list, id, next) ==
    [i \in 1..Len(list) |-> [list[i] EXCEPT !.status = next]]

\* apps.map((a) => (a.id === id ? { ...a, status: next } : a))
MapStatus(list, id, next) ==
    [i \in 1..Len(list) |->
        IF list[i].id = id THEN [list[i] EXCEPT !.status = next] ELSE list[i]]

-----------------------------------------------------------------------------
(* The view model: filtered and counts (lines 100-118) *)

RECURSIVE FilterByStatus(_, _)
FilterByStatus(list, f) ==
    IF list = <<>> THEN <<>>
    ELSE IF (IF f = "All" THEN TRUE ELSE Head(list).status = f)
         THEN <<Head(list)>> \o FilterByStatus(Tail(list), f)
         ELSE FilterByStatus(Tail(list), f)

MatchesQuery(a, rawQuery) ==
    LET q == ToLowerCase(Trim(rawQuery))
    IN  IF q = <<>> THEN TRUE
        ELSE \/ Includes(ToLowerCase(a.company), q)
             \/ Includes(ToLowerCase(a.role), q)
             \/ Includes(ToLowerCase(a.notes), q)

RECURSIVE FilterByQuery(_, _)
FilterByQuery(list, rawQuery) ==
    IF list = <<>> THEN <<>>
    ELSE IF MatchesQuery(Head(list), rawQuery)
         THEN <<Head(list)>> \o FilterByQuery(Tail(list), rawQuery)
         ELSE FilterByQuery(Tail(list), rawQuery)

FilteredEither(list, f, rawQuery) ==
    SelectSeq(list, LAMBDA a : (f # "All" /\ a.status = f) \/ MatchesQuery(a, rawQuery))

Filtered(list, f, rawQuery) == FilterByQuery(FilterByStatus(list, f), rawQuery)

CountsOfView(list) ==
    [k \in Filters |-> Len(FilterByStatus(Filtered(list, filter, query), k))]

Counts(list) ==
    [k \in Filters |->
        IF k = "All" THEN Len(list) ELSE Len(FilterByStatus(list, k))]

\* Svelte reruns the reactive declarations before the next event is handled.
Reactive ==
    /\ filtered' = Filtered(apps', filter', query')
    /\ counts' = Counts(apps')

-----------------------------------------------------------------------------
(* Inputs the model explores *)

Record(i, c, r, s, d, l, n, t) ==
    [ id |-> i, company |-> c, role |-> r, status |-> s, date |-> d,
      link |-> l, notes |-> n, createdAt |-> t ]

Form(c, r, s, d, l, n) ==
    [ company |-> c, role |-> r, status |-> s, date |-> d, link |-> l, notes |-> n ]

\* What the user can have typed into the form before pressing Add.
FormInputs ==
    { Form(<<" ", "A", "b", " ">>, <<"c">>, "Applied", "2024-01-01", <<>>, <<>>),
      Form(<<"A", "b">>, <<"\t", "c", " ">>, "Offer", "2024-02-02",
           <<" ", "x">>, <<"B", "c", " ">>),
      Form(<<" ">>, <<"c">>, "Applied", "2024-01-01", <<>>, <<>>),
      Form(<<"A", "b">>, <<" ", "\t">>, "Offer", "2024-02-02", <<" ", "x">>, <<>>) }

\* Lists an earlier session can have left under the storage key.
StoredOld == Record("u1", <<"A", "b">>, <<"c">>, "Applied", "2024-01-01", <<>>, <<>>, 0)

StoredTie == Record("u2", <<"A", "b">>, <<"c">>, "Rejected", "2024-01-01", <<>>, <<>>, 0)

StoredNew ==
    Record("u2", <<"A", "b">>, <<"c">>, "Offer", "2024-02-02", <<"x">>, <<"B", "c">>, 1)

StoredLists ==
    { <<>>, <<StoredOld>>, <<StoredOld, StoredNew>>, <<StoredNew, StoredOld>>,
      <<StoredTie, StoredOld>>, <<StoredOld, StoredTie>> }

StoredValues ==
    { NoItem, EmptyText, InvalidText,
      JsonText([t |-> "null"]), JsonText([t |-> "num"]), JsonText([t |-> "obj"]) }
    \cup { Save(l) : l \in StoredLists }

CreatedAtOf(list) == { list[i].createdAt : i \in 1..Len(list) }

\* Stored timestamps are earlier readings of the clock that stamps new records.
Latest(times) == CHOOSE t \in times : \A u \in times : u <= t

-----------------------------------------------------------------------------
(* Initial state: the component instance before onMount runs *)

Init ==
    /\ company = <<>>
    /\ role = <<>>
    /\ status = "Applied"
    /\ date = Today
    /\ link = <<>>
    /\ notes = <<>>
    /\ apps = <<>>
    /\ filter = "All"
    /\ query = <<>>
    /\ filtered = Filtered(apps, filter, query)
    /\ counts = Counts(apps)
    /\ storage \in StoredValues
    /\ mount = "init"
    /\ now = Latest(CreatedAtOf(Load(storage).list) \cup {0})
    /\ hasSaved = FALSE
    /\ lastOp = [op |-> "init", id |-> NoId]

-----------------------------------------------------------------------------
(* Handlers *)

\* onMount (lines 49-51): a value that is no array has no sort method, so the
\* callback throws before apps is assigned; the page stays up with apps = []
OnMount ==
    /\ mount = "init"
    /\ mount' = "mounted"
    /\ LET loaded == Load(storage)
       IN  IF loaded.t = "arr"
           THEN /\ apps' = SortDesc(loaded.list)
                /\ lastOp' = [op |-> "onMount", id |-> NoId]
           ELSE /\ apps' = apps
                /\ lastOp' = [op |-> "onMount:threw", id |-> NoId]
    /\ UNCHANGED << formVars, filter, query, storage, now, hasSaved >>
    /\ Reactive

\* bind:value on the six form inputs (lines 141-171)
FillForm(f) ==
    /\ mount # "init"
    /\ company' = f.company
    /\ role' = f.role
    /\ status' = f.status
    /\ date' = f.date
    /\ link' = f.link
    /\ notes' = f.notes
    /\ lastOp' = [op |-> "input", id |-> NoId]
    /\ UNCHANGED << apps, filter, query, filtered, counts, storage, mount, now, hasSaved >>

\* the Clear button (lines 179-185)
ClearForm ==
    /\ mount # "init"
    /\ company' = <<>>
    /\ role' = <<>>
    /\ status' = "Applied"
    /\ link' = <<>>
    /\ notes' = <<>>
    /\ lastOp' = [op |-> "clear", id |-> NoId]
    /\ UNCHANGED << date, apps, filter, query, filtered, counts, storage, mount, now,
                    hasSaved >>

RejectsBoth(cleanCompany, cleanRole) == cleanCompany = <<>> /\ cleanRole = <<>>

\* if (!cleanCompany || !cleanRole) return;   (line 57)
Rejects(cleanCompany, cleanRole) == cleanCompany = <<>> \/ cleanRole = <<>>

\* addApp (lines 53-78); newId is what uid() returns, t what Date.now() returns
AddApp(newId, t) ==
    /\ mount # "init"
    /\ UNCHANGED << filter, query, mount >>
    /\ LET cleanCompany == Trim(company)
           cleanRole == Trim(role)
       IN  IF Rejects(cleanCompany, cleanRole)
           THEN /\ newId = NoId
                /\ t = now
                /\ lastOp' = [op |-> "addApp:rejected", id |-> NoId]
                /\ UNCHANGED << formVars, apps, filtered, counts, storage, now, hasSaved >>
           ELSE /\ newId \in Ids
                /\ t \in now..MaxClock
                /\ Len(apps) < MaxApps
                /\ LET item == Record(newId, cleanCompany, cleanRole, status, date,
                                      Trim(link), Trim(notes), t)
                   IN  apps' = Prepend(item, apps)
                /\ storage' = Save(apps')
                /\ hasSaved' = TRUE
                /\ now' = t
                /\ company' = <<>>
                /\ role' = <<>>
                /\ status' = "Applied"
                /\ link' = <<>>
                /\ notes' = <<>>
                /\ UNCHANGED date
                /\ lastOp' = [op |-> "addApp", id |-> newId]
                /\ Reactive

RemoveAppNoSave(id) ==
    /\ mount # "init"
    /\ apps' = FilterOutId(apps, id)
    /\ lastOp' = [op |-> "removeApp", id |-> id]
    /\ UNCHANGED << formVars, filter, query, mount, now, storage, hasSaved >>
    /\ Reactive

\* removeApp (lines 80-83)
RemoveApp(id) ==
    /\ mount # "init"
    /\ apps' = FilterOutId(apps, id)
    /\ storage' = Save(apps')
    /\ hasSaved' = TRUE
    /\ lastOp' = [op |-> "removeApp", id |-> id]
    /\ UNCHANGED << formVars, filter, query, mount, now >>
    /\ Reactive

\* setStatus (lines 85-88)
SetStatus(id, next) ==
    /\ mount # "init"
    /\ apps' = MapStatus(apps, id, next)
    /\ storage' = Save(apps')
    /\ hasSaved' = TRUE
    /\ lastOp' = [op |-> "setStatus", id |-> id]
    /\ UNCHANGED << formVars, filter, query, mount, now >>
    /\ Reactive

Next ==
    \/ OnMount
    \/ \E f \in FormInputs : FillForm(f)
    \/ ClearForm
    \/ \E newId \in Ids \cup {NoId}, t \in 0..MaxClock : AddApp(newId, t)
    \/ \E id \in Ids : RemoveApp(id)
    \/ \E id \in Ids, next \in Statuses : SetStatus(id, next)

Spec == Init /\ [][Next]_vars

-----------------------------------------------------------------------------
(* The view model on its own: the filter buttons and the search box *)

ViewRecords ==
    { Record("u1", <<"A", "c">>, <<"b">>, "Applied", "2024-01-01", <<>>, <<>>, 0),
      Record("u2", <<"b", "a">>, <<"C">>, "Offer", "2024-02-02", <<"x">>,
             <<"a", "c", " ", "A">>, 0),
      Record("u3", <<"c">>, <<"a", "b">>, "Offer", "2024-01-01", <<>>, <<>>, 0),
      Record("u4", <<"B">>, <<"c">>, "Rejected", "2024-01-01", <<>>, <<"A", "c">>, 0) }

ViewLists == UNION { [1..n -> ViewRecords] : n \in 0..MaxViewLen }

Queries ==
    { <<>>, <<"\t", " ">>, <<" ", "A", "C", " ">>, <<"b">>, <<"c", "a">>, <<"B", "A">> }

InitView ==
    /\ company = <<>>
    /\ role = <<>>
    /\ status = "Applied"
    /\ date = Today
    /\ link = <<>>
    /\ notes = <<>>
    /\ apps \in ViewLists
    /\ filter \in Filters
    /\ query \in Queries
    /\ filtered = Filtered(apps, filter, query)
    /\ counts = Counts(apps)
    /\ storage = Save(apps)
    /\ mount = "mounted"
    /\ now = 0
    /\ hasSaved = FALSE
    /\ lastOp = [op |-> "onMount", id |-> NoId]

\* the filter buttons (lines 197-211)
SetFilter(f) ==
    /\ mount # "init"
    /\ filter' = f
    /\ lastOp' = [op |-> "setFilter", id |-> NoId]
    /\ UNCHANGED << formVars, apps, query, storage, mount, now, hasSaved >>
    /\ Reactive

\* bind:value on the search box (line 214)
SetQuery(q) ==
    /\ mount # "init"
    /\ query' = q
    /\ lastOp' = [op |-> "setQuery", id |-> NoId]
    /\ UNCHANGED << formVars, apps, filter, storage, mount, now, hasSaved >>
    /\ Reactive

NextView ==
    \/ \E f \in Filters : SetFilter(f)
    \/ \E q \in Queries : SetQuery(q)

SpecView == InitView /\ [][NextView]_vars

-----------------------------------------------------------------------------
(* Vocabulary of the properties, stated without the operators of the model *)

IsBlank(s) == \A i \in 1..Len(s) : s[i] \in WhiteSpace

\* t is s without its leading and trailing white space
IsTrimOf(t, s) ==
    \E i \in 1..(Len(s) + 1), j \in 0..Len(s) :
        /\ t = SubSeq(s, i, j)
        /\ \A k \in 1..(i - 1) : s[k] \in WhiteSpace
        /\ \A k \in (j + 1)..Len(s) : s[k] \in WhiteSpace
        /\ t # <<>> => (t[1] \notin WhiteSpace /\ t[Len(t)] \notin WhiteSpace)

IsSubstring(q, s) ==
    \E i \in 0..(Len(s) - Len(q)) : \A k \in 1..Len(q) : s[i + k] = q[k]

IdsOf(list) == { list[i].id : i \in 1..Len(list) }

UniqueIds(list) ==
    \A i, j \in 1..Len(list) : list[i].id = list[j].id => i = j

NewestFirst(list) ==
    \A i, j \in 1..Len(list) : i < j => list[i].createdAt >= list[j].createdAt

AddOps == {"addApp", "addApp:rejected"}

-----------------------------------------------------------------------------
(* Properties *)

\* C1: once a mutation has completed in this session, the snapshot under the
\* storage key is the serialization of the in-memory list: load() returns a
\* list equal to apps, record by record, field by field, in the same order.
C1_SnapshotIsCurrentList ==
    hasSaved =>
        LET loaded == Load(storage)
        IN  /\ loaded.t = "arr"
            /\ Len(loaded.list) = Len(apps)
            /\ \A i \in 1..Len(apps) :
                 /\ loaded.list[i].id = apps[i].id
                 /\ loaded.list[i].company = apps[i].company
                 /\ loaded.list[i].role = apps[i].role
                 /\ loaded.list[i].status = apps[i].status
                 /\ loaded.list[i].date = apps[i].date
                 /\ loaded.list[i].link = apps[i].link
                 /\ loaded.list[i].notes = apps[i].notes
                 /\ loaded.list[i].createdAt = apps[i].createdAt

C1_Witness ==
    /\ hasSaved
    /\ lastOp.op = "removeApp"
    /\ Len(apps) = 1
    /\ apps[1].status = "Interviewing"
    /\ Load(storage).list = apps

\* C2: an add whose company or role is empty after trimming is rejected: the
\* list is unchanged and nothing is written to storage.
C2_BlankAddIsRejected ==
    [][ (lastOp'.op \in AddOps /\ (IsBlank(company) \/ IsBlank(role)))
            => /\ apps' = apps
               /\ storage' = storage
               /\ hasSaved' = hasSaved ]_vars

C2_Witness ==
    /\ lastOp.op = "addApp:rejected"
    /\ ~IsBlank(company)
    /\ IsBlank(role)
    /\ role # <<>>
    /\ Len(apps) = 1
    /\ ~hasSaved

\* C3: an add whose trimmed company and role are both non-empty puts the new
\* record at the head and keeps the previous list behind it, unchanged and in
\* order; the record carries the trimmed company, role, link and notes, the
\* requested status and the form's date, wherever that date falls.
C3_AddPrependsTrimmedRecord ==
    [][ (lastOp'.op \in AddOps /\ ~IsBlank(company) /\ ~IsBlank(role))
            => /\ Len(apps') = Len(apps) + 1
               /\ \A i \in 1..Len(apps) : apps'[i + 1] = apps[i]
               /\ IsTrimOf(apps'[1].company, company)
               /\ IsTrimOf(apps'[1].role, role)
               /\ IsTrimOf(apps'[1].link, link)
               /\ IsTrimOf(apps'[1].notes, notes)
               /\ apps'[1].status = status
               /\ apps'[1].date = date ]_vars

C3_Witness ==
    /\ lastOp.op = "addApp"
    /\ Len(apps) = 2
    /\ apps[1].date = "2024-01-01"
    /\ apps[2].date = "2024-02-02"
    /\ apps[1].company = <<"A", "b">>
    /\ apps[1].status = "Applied"
    /\ apps[2].status = "Rejected"

\* C4: setStatus(id, S) changes only the status of the records whose id is id:
\* same length and order, every field but status kept, records with another id
\* untouched, and no change at all when no record has that id.
C4_SetStatusTouchesOnlyStatus ==
    [][ \A id \in Ids, S \in Statuses :
          (lastOp' = [op |-> "setStatus", id |-> id] /\ SetStatus(id, S))
            => /\ Len(apps') = Len(apps)
               /\ \A i \in 1..Len(apps) :
                    IF apps[i].id = id
                    THEN /\ apps'[i].status = S
                         /\ apps'[i].id = apps[i].id
                         /\ apps'[i].company = apps[i].company
                         /\ apps'[i].role = apps[i].role
                         /\ apps'[i].date = apps[i].date
                         /\ apps'[i].link = apps[i].link
                         /\ apps'[i].notes = apps[i].notes
                         /\ apps'[i].createdAt = apps[i].createdAt
                    ELSE apps'[i] = apps[i]
               /\ (id \notin IdsOf(apps) => apps' = apps) ]_vars

C4_Witness ==
    /\ lastOp = [op |-> "setStatus", id |-> "u1"]
    /\ Len(apps) = 2
    /\ apps[1].id = "u2"
    /\ apps[2].id = "u1"
    /\ apps[2].status = "Interviewing"
    /\ apps[1].status = "Offer"

\* C5: removeApp(id) is idempotent: a second removeApp(id) right after the
\* first leaves the list as it is, an id no record has leaves the list as it
\* is, and the records with other ids are kept in their relative order.
C5_RemoveIsIdempotent ==
    [][ \A id \in Ids :
          (lastOp' = [op |-> "removeApp", id |-> id])
            => /\ apps' = SelectSeq(apps, LAMBDA a : a.id # id)
               /\ id \notin IdsOf(apps')
               /\ (id \notin IdsOf(apps) => apps' = apps)
               /\ (lastOp = [op |-> "removeApp", id |-> id] => apps' = apps) ]_vars

C5_Witness ==
    /\ lastOp = [op |-> "removeApp", id |-> "u1"]
    /\ Len(apps) = 1
    /\ apps[1].id = "u2"
    /\ hasSaved
    /\ Load(storage).list = apps

\* C6: whenever the storage key holds something other than a serialized array
\* of records (nothing, unparseable text, or a serialized object, number or
\* null), load() returns an empty sequence and start-up completes with an
\* empty list.
C6_CorruptStorageLoadsEmpty ==
    ( /\ lastOp.op \in {"onMount", "onMount:threw"}
      /\ ~(storage.kind = "json" /\ storage.json.t = "arr") )
        => /\ Load(storage) = EmptyArray
           /\ lastOp.op = "onMount"
           /\ apps = <<>>

\* C7 as claimed: after start-up no two records of the list share an id.
C7_IdsAlwaysUnique == mount # "init" => UniqueIds(apps)

\* C7 as amended: no step makes two records share an id, except an accepted add
\* for which uid() returned an id that a record of the list already has; the
\* start-up load yields distinct ids when the stored snapshot holds distinct ids.
C7_IdsUniqueUnlessUidCollides ==
    [][ ( /\ UniqueIds(apps)
          /\ ~(lastOp'.op = "addApp" /\ lastOp'.id \in IdsOf(apps))
          /\ (mount = "init" => UniqueIds(Load(storage).list)) )
            => UniqueIds(apps') ]_vars

C7_Witness ==
    /\ lastOp = [op |-> "addApp", id |-> "u2"]
    /\ Len(apps) = 2
    /\ apps[2].id = "u1"
    /\ UniqueIds(apps)

\* C8: the filtered view is the subsequence of the list, in the list's order,
\* of the records that pass the status filter AND the search: the filter is All
\* or equals the record's status, and the trimmed, lower-cased query is empty
\* or occurs in the lower-cased company, role or notes.
C8_FilteredIsConjunction ==
    \A q \in { SubSeq(query, i, j) : i \in 1..(Len(query) + 1), j \in 0..Len(query) } :
        IsTrimOf(q, query) =>
            filtered =
                SelectSeq(apps, LAMBDA a :
                    /\ (filter = "All" \/ a.status = filter)
                    /\ \/ q = <<>>
                       \/ IsSubstring(ToLowerCase(q), ToLowerCase(a.company))
                       \/ IsSubstring(ToLowerCase(q), ToLowerCase(a.role))
                       \/ IsSubstring(ToLowerCase(q), ToLowerCase(a.notes)))

C8_Witness ==
    /\ lastOp.op = "setFilter"
    /\ filter = "Offer"
    /\ query = <<" ", "A", "C", " ">>
    /\ Len(apps) = 2
    /\ apps[1].status = "Offer"
    /\ apps[1].company = <<"c">>
    /\ apps[2].status = "Rejected"
    /\ filtered = <<>>

\* C9: the counts are those of the whole list whatever the filter and the
\* search are: counts.All is the length of the list and each status count is
\* the number of records of the list with that status.
C9_CountsOfWholeList ==
    /\ counts["All"] = Len(apps)
    /\ \A s \in Statuses :
         counts[s] = Cardinality({ i \in 1..Len(apps) : apps[i].status = s })

C9_Witness ==
    /\ lastOp.op = "setQuery"
    /\ filter = "Offer"
    /\ query = <<"B", "A">>
    /\ Len(apps) = 2
    /\ Len(filtered) = 1
    /\ counts["All"] = 2
    /\ counts["Applied"] = 1

====
